---- MODULE Spec2Model ----
(***************************************************************************)
(* Thermal label printer server: the image-to-bitmap conversion, the label *)
(* templates, the command streams written to the printer device and the    *)
(* persisted geometry/offset configuration.                                *)
(*                                                                         *)
(* Sources modelled:                                                       *)
(*   src/print_server.py                      (Flask server, "server")     *)
(*   src/files/opt/thermal-printer/print_server.py  (http.server, "opt")   *)
(*   src/image_to_tspl_fixed.py               (script, "fixed")            *)
(*   src/image_to_tspl.py                     (script, hex output, "hex")  *)
(*                                                                         *)
(* Units.  Millimetre sizes (label_width_mm, label_height_mm, gap_mm) are  *)
(* floats in the code; here they are integers counting tenths of a         *)
(* millimetre.  A nudge's mm is an integer counting sixteenths of a        *)
(* millimetre, so that mm * DOTS_PER_MM is an exact multiple of one half   *)
(* and Python's round-half-to-even is modelled exactly.  Offsets are dots. *)
(***************************************************************************)
EXTENDS Integers, Sequences, FiniteSets, TLC

VARIABLES
    img,        \* the decoded grayscale image handed to a conversion
    dither,     \* the dither argument of that conversion
    out,        \* locals and result of the last image_to_tspl call
    pc,         \* position of the conversion / request under way
    cfgFile,    \* contents of CONFIG_PATH (NoFile until first saved)
    bakFile,    \* contents of CONFIG_PATH + ".bak"
    resp,       \* the last HTTP response
    ops,        \* number of configuration requests served so far
    stream,     \* the last command stream built
    device,     \* the streams written to PRINTER_DEVICE, in order
    req,        \* the request being served, or the last one served
    threads,    \* the request threads of the Flask server, each with its
                \* request, its position and its local variables
    call        \* the function called on img and its further arguments

vars ==
    <<img, dither, out, pc, cfgFile, bakFile, resp, ops, stream, device, req, threads,
      call>>

(***************************************************************************)
(* Bounds of the model.                                                    *)
(***************************************************************************)
MaxW == 9          \* widest image with one distinguished pixel
MaxH == 2          \* tallest such image
FullW == 3         \* widest image whose every black/white pattern is drawn
FullH == 2         \* tallest such image
MaxOps == 3        \* configuration requests served in one run

(***************************************************************************)
(* Program constants.                                                      *)
(***************************************************************************)
DOTS_PER_MM == 8
DOT_MIN == -300
DOT_MAX == 300
WHITE_THRESHOLD == 245
MAX_TOP_TRIM_PX == 80
HORIZONTAL_SHIFT_PX == -20
X_OFFSET == 0
Y_OFFSET == 0
AUTO_TRIM_TOP_WHITESPACE == TRUE
ThumbMaxW == 812
ThumbMaxH == 1218
ChunkSize == 4000

(***************************************************************************)
(* Arithmetic helpers.                                                     *)
(***************************************************************************)
Min(a, b) == IF a <= b THEN a ELSE b
Max(a, b) == IF a >= b THEN a ELSE b
Abs(a) == IF a >= 0 THEN a ELSE -a

\* C integer division truncates toward zero.
TruncDiv(a, b) == IF a >= 0 THEN a \div b ELSE -((-a) \div b)

\* CLIP8 of Pillow: clamp into 0..255.
Clip8(v) == IF v < 0 THEN 0 ELSE IF v > 255 THEN 255 ELSE v

(***************************************************************************)
(* Grayscale images: width, height and the row-major samples, as           *)
(* list(img.getdata()) returns them (index 1 is row 0, column 0).          *)
(***************************************************************************)
MkImage(w, h, px) == [w |-> w, h |-> h, px |-> px]

PixelAt(im, row, col) == im.px[row * im.w + col + 1]

\* Image.new('L', (width, height), 255)
NewImage(w, h, fill) == MkImage(w, h, [i \in 1..(w * h) |-> fill])

\* img.crop((left, upper, right, lower))
Crop(im, left, upper, right, lower) ==
    LET w2 == right - left
        h2 == lower - upper
    IN  MkImage(w2, h2,
            [i \in 1..(w2 * h2) |->
                PixelAt(im, upper + ((i - 1) \div w2), left + ((i - 1) % w2))])

\* canvas.paste(source, (x, y)) for a source that fits the canvas
Paste(canvas, source, x, y) ==
    [canvas EXCEPT !.px =
        [i \in 1..(canvas.w * canvas.h) |->
            LET row == (i - 1) \div canvas.w
                col == (i - 1) % canvas.w
            IN  IF /\ col - x >= 0 /\ col - x < source.w
                   /\ row - y >= 0 /\ row - y < source.h
                THEN PixelAt(source, row - y, col - x)
                ELSE canvas.px[i]]]

\* img.point(f, ...) / Image.eval(img, f): f applied to every sample
PointInvert(im) == [im EXCEPT !.px = [i \in DOMAIN im.px |-> 255 - im.px[i]]]

\* img.point(lambda px: 0 if px < 128 else 255, "1")
PointThresholdLe(im) ==
    [im EXCEPT !.px = [i \in DOMAIN im.px |-> IF im.px[i] <= 128 THEN 0 ELSE 255]]
PointThreshold(im) ==
    [im EXCEPT !.px = [i \in DOMAIN im.px |-> IF im.px[i] < 128 THEN 0 ELSE 255]]

\* img.thumbnail((812, 1218), LANCZOS) never enlarges: an image within the box
\* is left as it is.  Every image drawn below is within the box (InThumbBox);
\* the resampling of larger images is outside this model.
InThumbBox(im) == im.w <= ThumbMaxW /\ im.h <= ThumbMaxH
Thumbnail(im) == im

(***************************************************************************)
(* img.convert("1", dither=FLOYDSTEINBERG).  The repository delegates this *)
(* to Pillow; the operator follows Pillow's error diffusion (tobilevel):   *)
(* one error cell per column carried from row to row, weights 7/5/3/1 over *)
(* 16, division truncating toward zero, white when the corrected level is *)
(* above 128.                                                              *)
(***************************************************************************)
RECURSIVE DitherRow(_, _, _)
DitherRow(im, y, s) ==
    LET x == Len(s.res)
    IN  IF x >= im.w
        THEN [s EXCEPT !.errors[x] = s.l0]
        ELSE LET la == Clip8(PixelAt(im, y, x) + TruncDiv(s.l + s.errors[x + 1], 16))
                 o == IF la > 128 THEN 255 ELSE 0
                 lb == la - o
                 d2 == lb + lb
                 lc == lb + d2
                 ld == lc + d2
                 le == ld + d2
             IN  DitherRow(im, y,
                     [l |-> le, l0 |-> ld + s.l1, l1 |-> lb,
                      errors |-> [s.errors EXCEPT ![x] = lc + s.l0],
                      res |-> Append(s.res, o)])

RECURSIVE DitherRows(_, _, _)
DitherRows(im, errors, acc) ==
    LET y == Len(acc) \div im.w
    IN  IF y >= im.h
        THEN acc
        ELSE LET s == DitherRow(im, y,
                         [l |-> 0, l0 |-> 0, l1 |-> 0, errors |-> errors, res |-> <<>>])
             IN  DitherRows(im, s.errors, acc \o s.res)

ConvertDither(im) ==
    [im EXCEPT !.px = DitherRows(im, [x \in 0..im.w |-> 0], <<>>)]

\* the dither / threshold branch of every image_to_tspl
Quantize(im, useDither) == IF useDither THEN ConvertDither(im) ELSE PointThreshold(im)

(***************************************************************************)
(* Pixel preprocessor of the "opt" server.                                 *)
(***************************************************************************)
\* mask.getbbox()[1]: first row holding a pixel below WHITE_THRESHOLD; -1
\* stands for getbbox() returning None.
FirstContentRow(im, row) ==
    LET content(r) == \E col \in 0..(im.w - 1) : PixelAt(im, r, col) < WHITE_THRESHOLD
    IN  IF \E r \in row..(im.h - 1) : content(r)
        THEN CHOOSE r \in row..(im.h - 1) :
                 content(r) /\ \A q \in row..(r - 1) : ~content(q)
        ELSE -1

\* a trim without the MAX_TOP_TRIM_PX cap
trim_top_uncapped(im) ==
    LET top == FirstContentRow(im, 0)
    IN  IF top <= 0 THEN im ELSE Crop(im, 0, top, im.w, im.h)

trim_top_whitespace(im) ==
    IF ~AUTO_TRIM_TOP_WHITESPACE THEN im
    ELSE LET top == FirstContentRow(im, 0)
         IN  IF top = -1 THEN im
             ELSE IF top <= 0 THEN im
             ELSE Crop(im, 0, Min(top, MAX_TOP_TRIM_PX), im.w, im.h)

\* a shift whose content re-enters at the opposite edge
shift_image_wrapping(im, shift_px) ==
    [im EXCEPT !.px =
        [i \in 1..(im.w * im.h) |->
            PixelAt(im, (i - 1) \div im.w, (((i - 1) % im.w) - shift_px) % im.w)]]

shift_image_horizontally(im, shift_px) ==
    IF shift_px = 0 THEN im
    ELSE IF Abs(shift_px) >= im.w THEN NewImage(im.w, im.h, 255)
    ELSE IF shift_px > 0
         THEN Paste(NewImage(im.w, im.h, 255),
                    Crop(im, 0, 0, im.w - shift_px, im.h), shift_px, 0)
         ELSE Paste(NewImage(im.w, im.h, 255),
                    Crop(im, -shift_px, 0, im.w, im.h), 0, 0)

(***************************************************************************)
(* Bitmap packer: the three nested loops of image_to_tspl.                 *)
(***************************************************************************)
\* (width + 7) // 8
WidthBytesFloor(width) == width \div 8
WidthBytes(width) == (width + 7) \div 8

\* 1 << (7 - bit)
BitMaskLsb(bit) == 2 ^ bit
BitMask(bit) == 2 ^ (7 - bit)

\* the body of "for bit in range(8)": the bit one pixel column contributes
PixelBitPadSet(pixels, width, row_start, byte_col, bit) ==
    IF byte_col + bit < width
    THEN (IF pixels[row_start + byte_col + bit + 1] < 128 THEN BitMask(bit) ELSE 0)
    ELSE BitMask(bit)
PixelBit(pixels, width, row_start, byte_col, bit) ==
    LET pixel_col == byte_col + bit
    IN  IF pixel_col < width
        THEN (IF pixels[row_start + pixel_col + 1] < 128 THEN BitMask(bit) ELSE 0)
        ELSE 0

\* byte_val after the bit loop (or-ing distinct bits is adding them)
RECURSIVE PackByte(_, _, _, _, _)
PackByte(pixels, width, row_start, byte_col, bit) ==
    IF bit >= 8 THEN 0
    ELSE PixelBit(pixels, width, row_start, byte_col, bit)
         + PackByte(pixels, width, row_start, byte_col, bit + 1)

\* for byte_col in range(0, padded_width, 8): bitmap_bytes.append(byte_val)
RECURSIVE PackRow(_, _, _, _, _)
PackRow(pixels, width, padded_width, row, byte_col) ==
    IF byte_col >= padded_width THEN <<>>
    ELSE <<PackByte(pixels, width, row * width, byte_col, 0)>>
         \o PackRow(pixels, width, padded_width, row, byte_col + 8)

\* for row in range(height)
RECURSIVE PackRows(_, _, _, _, _)
PackRows(pixels, width, height, padded_width, row) ==
    IF row >= height THEN <<>>
    ELSE PackRow(pixels, width, padded_width, row, 0)
         \o PackRows(pixels, width, height, padded_width, row + 1)

\* header = f"BITMAP {x},{y},{width_bytes},{height},0,"
BitmapHeader(x, y, width_bytes, height) ==
    [x |-> x, y |-> y, widthBytes |-> width_bytes, height |-> height, mode |-> 0]

\* the locals an image_to_tspl call ends with
Converted(variant, useDither, pre, plane, width_bytes, padded_width, x, y) ==
    [variant |-> variant, dither |-> useDither,
     width |-> pre.w, height |-> pre.h,
     pre |-> pre.px, plane |-> plane.px,
     header |-> BitmapHeader(x, y, width_bytes, pre.h),
     data |-> PackRows(plane.px, pre.w, pre.h, padded_width, 0)]

\* src/print_server.py
image_to_tspl(im, x, y, useDither) ==
    LET plane == Quantize(PointInvert(im), useDither)
        width_bytes == WidthBytes(im.w)
        padded_width == width_bytes * 8
    IN  Converted("server", useDither, im, plane, width_bytes, padded_width, x, y)

\* src/files/opt/thermal-printer/print_server.py
image_to_tspl_opt(im, x, y, useDither) ==
    LET pre == shift_image_horizontally(trim_top_whitespace(im), HORIZONTAL_SHIFT_PX)
        plane == Quantize(PointInvert(pre), useDither)
        width_bytes == WidthBytes(pre.w)
        padded_width == width_bytes * 8
    IN  Converted("opt", useDither, pre, plane, width_bytes, padded_width, x, y)

\* src/image_to_tspl_fixed.py
image_to_tspl_fixed(im, x, y, useDither) ==
    LET pre == Thumbnail(im)
        plane == Quantize(pre, useDither)
        padded_width == ((pre.w + 7) \div 8) * 8
        width_bytes == padded_width \div 8
    IN  Converted("fixed", useDither, pre, plane, width_bytes, padded_width, x, y)

\* src/image_to_tspl.py (bitmap_bytes; the hex text is built by HexStream)
image_to_tspl_hex(im, x, y, useDither) ==
    LET pre == Thumbnail(im)
        plane == Quantize(pre, useDither)
        padded_width == ((pre.w + 7) \div 8) * 8
        width_bytes == padded_width \div 8
    IN  Converted("hex", useDither, pre, plane, width_bytes, padded_width, x, y)

\* bytes that Image.open cannot read
NoImage == MkImage(0, 0, <<>>)

NoOut ==
    [variant |-> "none", dither |-> FALSE, width |-> 0, height |-> 0,
     pre |-> <<>>, plane |-> <<>>, header |-> BitmapHeader(0, 0, 0, 0), data |-> <<>>]

\* a call of a preprocessing function: its name and its shift_px argument
Call(fn, shift_px) == [fn |-> fn, shift_px |-> shift_px]
NoCall == Call("none", 0)

\* the image a preprocessing function returned, in the fields of out
Returned(fn, im) ==
    [NoOut EXCEPT !.variant = fn, !.width = im.w, !.height = im.h, !.pre = im.px]

(***************************************************************************)
(* Persisted configuration (CONFIG_PATH and its backup).                   *)
(***************************************************************************)
DEFAULT_CONFIG ==
    [label_width_mm |-> 1016, label_height_mm |-> 1524, gap_mm |-> 25,
     x_offset |-> 32, y_offset |-> 0]

NoFile == [exists |-> FALSE, cfg |-> DEFAULT_CONFIG]
FileOf(cfg) == [exists |-> TRUE, cfg |-> cfg]

NoResp == [code |-> 0, body |-> "none"]

(***************************************************************************)
(* JSON values of a request body.  kind "int": the integer v; "float": the *)
(* number v/10 in a configuration payload, v/16 as a nudge's mm; "str": a  *)
(* string that is no number; "null": JSON null; "absent": key not present. *)
(***************************************************************************)
Absent == [kind |-> "absent", v |-> 0]
IntV(n) == [kind |-> "int", v |-> n]
FloatV(n) == [kind |-> "float", v |-> n]
BadStr == [kind |-> "str", v |-> 0]
Null == [kind |-> "null", v |-> 0]

ConfigKeys == {"label_width_mm", "label_height_mm", "gap_mm", "x_offset", "y_offset"}

\* int(value): ValueError / TypeError are ok = FALSE
PyInt(val) ==
    IF val.kind = "int" THEN [ok |-> TRUE, v |-> val.v]
    ELSE IF val.kind = "float" THEN [ok |-> TRUE, v |-> TruncDiv(val.v, 10)]
    ELSE [ok |-> FALSE, v |-> 0]

\* float(value or 0): a null counts as 0
PyFloatNullAsZero(val) ==
    IF val.kind = "int" THEN [ok |-> TRUE, v |-> 10 * val.v]
    ELSE IF val.kind = "float" THEN [ok |-> TRUE, v |-> val.v]
    ELSE IF val.kind = "null" THEN [ok |-> TRUE, v |-> 0]
    ELSE [ok |-> FALSE, v |-> 0]

\* float(value), in tenths
PyFloat(val) ==
    IF val.kind = "int" THEN [ok |-> TRUE, v |-> 10 * val.v]
    ELSE IF val.kind = "float" THEN [ok |-> TRUE, v |-> val.v]
    ELSE [ok |-> FALSE, v |-> 0]

\* float(mm) of a nudge, in sixteenths
PyFloatMm(val) ==
    IF val.kind = "int" THEN [ok |-> TRUE, v |-> 16 * val.v]
    ELSE IF val.kind = "float" THEN [ok |-> TRUE, v |-> val.v]
    ELSE [ok |-> FALSE, v |-> 0]

\* round(n / 2): Python rounds a half to the even neighbour
RoundHalf(n) ==
    IF n % 2 = 0 THEN n \div 2
    ELSE LET lo == (n - 1) \div 2
         IN  IF lo % 2 = 0 THEN lo ELSE lo + 1

\* delta_dots = int(round(mm * DOTS_PER_MM)) for mm = mm16 / 16: the product is
\* (mm16 * DOTS_PER_MM) / 16, a whole number of halves
DeltaDots(mm16) == RoundHalf((mm16 * DOTS_PER_MM) \div 8)

\* max(DOT_MIN, min(DOT_MAX, v))
ClampSwapped(v) == Min(DOT_MIN, Max(DOT_MAX, v))
Clamp(v) == Max(DOT_MIN, Min(DOT_MAX, v))

\* a load that ignores the file and returns the defaults
load_config_Defaults == DEFAULT_CONFIG

\* load_config(): the defaults when there is no file, else every default key
\* taken from the file's data
load_config ==
    IF ~cfgFile.exists THEN DEFAULT_CONFIG
    ELSE [k \in ConfigKeys |->
            IF k \in DOMAIN cfgFile.cfg THEN cfgFile.cfg[k] ELSE DEFAULT_CONFIG[k]]

\* a save that writes the file first and copies it afterwards
save_config_CopyAfter(cfg) ==
    /\ bakFile' = (IF cfgFile.exists THEN FileOf(cfg) ELSE bakFile)
    /\ cfgFile' = FileOf(cfg)

\* save_config(cfg): copy an existing file to the backup, then write cfg
save_config(cfg) ==
    /\ bakFile' = (IF cfgFile.exists THEN cfgFile ELSE bakFile)
    /\ cfgFile' = FileOf(cfg)

Response(code, body) == [code |-> code, body |-> body]

NoPayload == [k \in ConfigKeys |-> Absent]
ConfigRequest(payload) ==
    [op |-> "config", payload |-> payload, axis |-> "", mm |-> Absent, body |-> <<>>]
\* the body of a nudge: "axis" ("" when the key is missing) and "mm"
NudgeRequest(axis, mm) ==
    [op |-> "nudge", payload |-> NoPayload, axis |-> axis, mm |-> mm, body |-> <<>>]
NoReq == [op |-> "none", payload |-> NoPayload, axis |-> "", mm |-> Absent, body |-> <<>>]
\* a print request: its route and its body text
PrintRequest(op, body) ==
    [op |-> op, payload |-> NoPayload, axis |-> "", mm |-> Absent, body |-> body]

\* "not payload": the body is no JSON or an empty object
IsEmpty(payload) == \A k \in ConfigKeys : payload[k].kind = "absent"

\* merged[k] before the conversions: the payload's value when the key is present
MergedRaw(current, payload, k) ==
    IF payload[k].kind # "absent" THEN payload[k]
    ELSE IF k \in {"x_offset", "y_offset"} THEN IntV(current[k]) ELSE FloatV(current[k])

\* POST /api/config
api_config(payload) ==
    /\ req' = ConfigRequest(payload)
    /\ IF IsEmpty(payload)
       THEN /\ resp' = Response(400, "Invalid JSON")
            /\ UNCHANGED <<cfgFile, bakFile>>
       ELSE LET current == load_config
                x == PyInt(MergedRaw(current, payload, "x_offset"))
                y == PyInt(MergedRaw(current, payload, "y_offset"))
                w == PyFloat(MergedRaw(current, payload, "label_width_mm"))
                h == PyFloat(MergedRaw(current, payload, "label_height_mm"))
                g == PyFloat(MergedRaw(current, payload, "gap_mm"))
            IN  IF x.ok /\ y.ok /\ w.ok /\ h.ok /\ g.ok
                THEN /\ save_config([label_width_mm |-> w.v, label_height_mm |-> h.v,
                                     gap_mm |-> g.v, x_offset |-> x.v, y_offset |-> y.v])
                     /\ resp' = Response(200, "config")
                ELSE /\ resp' = Response(400, "Invalid value")
                     /\ UNCHANGED <<cfgFile, bakFile>>

\* POST /api/nudge ("not payload": neither key is there)
api_nudge(r) ==
    /\ req' = r
    /\ IF r.axis = "" /\ r.mm.kind = "absent"
       THEN /\ resp' = Response(400, "Invalid JSON")
            /\ UNCHANGED <<cfgFile, bakFile>>
       ELSE IF r.axis \notin {"x", "y"}
       THEN /\ resp' = Response(400, "axis must be 'x' or 'y'")
            /\ UNCHANGED <<cfgFile, bakFile>>
       ELSE LET mm == PyFloatMm(r.mm)
            IN  IF ~mm.ok
                THEN /\ resp' = Response(400, "mm must be a number")
                     /\ UNCHANGED <<cfgFile, bakFile>>
                ELSE LET cfg == load_config
                         delta_dots == DeltaDots(mm.v)
                     IN  /\ save_config(
                                IF r.axis = "x"
                                THEN [cfg EXCEPT !.x_offset = Clamp(cfg.x_offset + delta_dots)]
                                ELSE [cfg EXCEPT !.y_offset = Clamp(cfg.y_offset + delta_dots)])
                         /\ resp' = Response(200, "config")

(***************************************************************************)
(* Strings.  A caller-supplied string is a sequence of characters; a       *)
(* literal of the program ("PACKING LIST", "Order: #") is kept whole as one *)
(* element, since it is never sliced and holds no quote.                   *)
(***************************************************************************)
Lit(s) == <<s>>

\* s[:n]
Take(s, n) == SubSeq(s, 1, Min(n, Len(s)))

\* s[i:j] for 0 <= i <= j
Slice(s, i, j) == SubSeq(s, i + 1, Min(j, Len(s)))

Whitespace == {" ", "\n", "\t", "\r"}

\* s.strip()
RECURSIVE LStrip(_)
LStrip(s) == IF s # <<>> /\ Head(s) \in Whitespace THEN LStrip(Tail(s)) ELSE s
RECURSIVE RStrip(_)
RStrip(s) ==
    IF s # <<>> /\ s[Len(s)] \in Whitespace THEN RStrip(SubSeq(s, 1, Len(s) - 1)) ELSE s
Strip(s) == RStrip(LStrip(s))

\* s.split(sep): the pieces between the separators, always at least one
Split(s, sep) ==
    LET seps == { i \in DOMAIN s : s[i] = sep }
        \* position of the k-th separator; 0 and Len(s) + 1 bound the string
        at(k) == IF k = 0 THEN 0
                 ELSE IF k > Cardinality(seps) THEN Len(s) + 1
                 ELSE CHOOSE p \in seps : Cardinality({ q \in seps : q < p }) = k - 1
    IN  [k \in 1..(Cardinality(seps) + 1) |-> SubSeq(s, at(k - 1) + 1, at(k) - 1)]

\* a test that never finds the separator
ContainsNever(s, sep) == FALSE

\* sep in s
Contains(s, sep) == \E k \in DOMAIN s : s[k] = sep

\* s.replace('"', '\\"'), character by character; done holds what is
\* written for the characters up to position done.read
RECURSIVE EscapeFrom(_, _)
EscapeFrom(s, done) ==
    LET i == done.read + 1
    IN  IF i > Len(s) THEN done.res
        ELSE EscapeFrom(s, [read |-> i,
                            res |-> done.res \o (IF s[i] = "\"" THEN <<"\\", "\"">>
                                                                ELSE <<s[i]>>)])
EscapeQuotes(s) == EscapeFrom(s, [read |-> 0, res |-> <<>>])

(***************************************************************************)
(* Command streams: the bytes a request builds, as a sequence of elements. *)
(* "cmd" is one protocol instruction (name, numeric arguments, the unit    *)
(* text written after a size, the quoted string), "nl" a line terminator,  *)
(* "bin" raw bytes, "hex" the same bytes written as hexadecimal text.      *)
(***************************************************************************)
Cmd(name, args, unit, text) ==
    [t |-> "cmd", name |-> name, args |-> args, unit |-> unit, text |-> text, data |-> <<>>]
NL == [t |-> "nl", name |-> "", args |-> <<>>, unit |-> "", text |-> <<>>, data |-> <<>>]
Bin(bytes) ==
    [t |-> "bin", name |-> "", args |-> <<>>, unit |-> "", text |-> <<>>, data |-> bytes]
HexText(bytes) ==
    [t |-> "hex", name |-> "", args |-> <<>>, unit |-> "", text |-> <<>>, data |-> bytes]

\* f"...\n" for every command
RECURSIVE Terminated(_)
Terminated(cmds) ==
    IF cmds = <<>> THEN <<>> ELSE <<Head(cmds), NL>> \o Terminated(Tail(cmds))

\* "\n".join(parts), each part a sequence of elements
RECURSIVE Joined(_)
Joined(parts) ==
    IF parts = <<>> THEN <<>>
    ELSE IF Len(parts) = 1 THEN Head(parts)
    ELSE Head(parts) \o <<NL>> \o Joined(Tail(parts))

\* one single-command part per command
Singles(cmds) == [k \in DOMAIN cmds |-> <<cmds[k]>>]

\* TEXT x,y,"font",0,1,1,"text"
TextCmd(x, y, font, text) == Cmd("TEXT", <<x, y, font, 0, 1, 1>>, "", text)

\* header of image_to_tspl as a stream element
BitmapCmd(header) ==
    Cmd("BITMAP", <<header.x, header.y, header.widthBytes, header.height, header.mode>>,
        "", <<>>)

PrintCmd(args) == Cmd("PRINT", args, "", <<>>)

\* int(round(tenths / 10)); no tie arises for the even numerators it is given
RoundTenths(n) == (n + 5) \div 10

(***************************************************************************)
(* LabelTemplates of src/print_server.py (Flask server).                   *)
(***************************************************************************)
tspl_header(cfg) ==
    <<Cmd("SIZE", <<cfg.label_width_mm, cfg.label_height_mm>>, " mm", <<>>),
      Cmd("GAP", <<cfg.gap_mm, 0>>, " mm", <<>>),
      Cmd("DENSITY", <<8>>, "", <<>>),
      Cmd("SPEED", <<4>>, "", <<>>),
      Cmd("DIRECTION", <<1>>, "", <<>>),
      Cmd("SHIFT", <<cfg.x_offset>>, "", <<>>),
      Cmd("CLS", <<>>, "", <<>>)>>

\* every line emitted, none cut to the budget
BodyLinesUncut(lines, maxLines, budget, x, y, step) ==
    [k \in 1..Len(lines) |-> TextCmd(x, y + (k - 1) * step, 2, EscapeQuotes(lines[k]))]

\* for line in lines[:maxLines]: safe = line.replace('"', '\\"')[:budget]; TEXT ...; y += step
BodyLines(lines, maxLines, budget, x, y, step) ==
    [k \in 1..Min(Len(lines), maxLines) |->
        TextCmd(x, y + (k - 1) * step, 2, Take(EscapeQuotes(lines[k]), budget))]

\* simple_text with the print trigger emitted before the body lines
simple_text_PrintFirst(lines, title, cfg) ==
    LET y0 == cfg.y_offset
    IN  Terminated(
            tspl_header(cfg)
            \o <<TextCmd(50, 30 + y0, 3, title), Cmd("BAR", <<50, 80 + y0, 400, 4>>, "", <<>>)>>
            \o <<PrintCmd(<<1, 1>>)>>
            \o BodyLines(lines, 8, 40, 50, 110 + y0, 55))
simple_text(lines, title, cfg) ==
    LET y0 == cfg.y_offset
    IN  Terminated(
            tspl_header(cfg)
            \o <<TextCmd(50, 30 + y0, 3, title), Cmd("BAR", <<50, 80 + y0, 400, 4>>, "", <<>>)>>
            \o BodyLines(lines, 8, 40, 50, 110 + y0, 55)
            \o <<PrintCmd(<<1, 1>>)>>)

border_test(cfg) ==
    LET w == RoundTenths(cfg.label_width_mm * DOTS_PER_MM)
        h == RoundTenths(cfg.label_height_mm * DOTS_PER_MM)
        y0 == cfg.y_offset
    IN  Terminated(
            tspl_header(cfg)
            \o <<Cmd("BOX", <<0, y0, w - 1, y0 + h - 1, 2>>, "", <<>>),
                 TextCmd(10, y0 + 10, 0, Lit("BORDER TEST")),
                 PrintCmd(<<1>>)>>)

center_test(cfg) ==
    LET w == RoundTenths(cfg.label_width_mm * DOTS_PER_MM)
        h == RoundTenths(cfg.label_height_mm * DOTS_PER_MM)
        cx == w \div 2
        cy == (h \div 2) + cfg.y_offset
        y0 == cfg.y_offset
    IN  Terminated(
            tspl_header(cfg)
            \o <<Cmd("BAR", <<cx - 20, cy - 1, 40, 2>>, "", <<>>),
                 Cmd("BAR", <<cx - 1, cy - 20, 2, 40>>, "", <<>>),
                 Cmd("BOX", <<cx - 32, cy - 32, cx + 32, cy + 32, 1>>, "", <<>>),
                 Cmd("BOX", <<cx - 16, cy - 16, cx + 16, cy + 16, 1>>, "", <<>>),
                 TextCmd(10, y0 + 10, 0, Lit("CENTER CAL")),
                 PrintCmd(<<1>>)>>)

\* the "direction" branch of api_print_test
direction_test(cfg) ==
    Terminated(
        tspl_header(cfg)
        \o <<TextCmd(10, 10, 2, Lit("<<< LEFT EDGE")),
             TextCmd(600, 10, 2, Lit("RIGHT EDGE >>>")),
             TextCmd(10, 1100, 2, Lit("<<< LEFT EDGE")),
             TextCmd(600, 1100, 2, Lit("RIGHT EDGE >>>")),
             TextCmd(300, 550, 3, Lit("^ TOP ^")),
             TextCmd(300, 1050, 3, Lit("v BOTTOM v")),
             Cmd("BAR", <<10, 50, 800, 2>>, "", <<>>),
             Cmd("BAR", <<10, 1150, 800, 2>>, "", <<>>),
             Cmd("BAR", <<50, 10, 2, 1200>>, "", <<>>),
             Cmd("BAR", <<750, 10, 2, 1200>>, "", <<>>),
             PrintCmd(<<1>>)>>)

(***************************************************************************)
(* LabelTemplates of src/files/opt/thermal-printer/print_server.py.        *)
(***************************************************************************)
LABEL_WIDTH_MM == 1016
LABEL_HEIGHT_MM == 1524

opt_prelude ==
    <<Cmd("SIZE", <<LABEL_WIDTH_MM, LABEL_HEIGHT_MM>>, "mm", <<>>),
      Cmd("GAP", <<3, 0>>, "mm", <<>>),
      Cmd("CLS", <<>>, "", <<>>)>>

\* [address[i:i+30] for i in range(0, min(len(address), 90), 30)]
RECURSIVE AddressChunks(_, _)
AddressChunks(address, i) ==
    IF i >= Min(Len(address), 90) THEN <<>>
    ELSE <<Slice(address, i, i + 30)>> \o AddressChunks(address, i + 30)

standard_shipping(order, customer, address, barcode, date_str) ==
    LET addr_lines == IF Contains(address, ",") THEN Split(address, ",")
                      ELSE AddressChunks(address, 0)
        shown == Take(addr_lines, 3)
        bc == IF barcode # <<>> THEN barcode ELSE order
    IN  Joined(Singles(
            opt_prelude
            \o <<Cmd("BOX", <<40, 20, 400, 100, 4>>, "", <<>>),
                 TextCmd(50, 35, 3, Lit("ATK FABRICATION CO.")),
                 TextCmd(50, 75, 1, Lit("Quality Fabrication & Design")),
                 Cmd("BAR", <<40, 110, 360, 3>>, "", <<>>),
                 TextCmd(50, 130, 2, Lit("Order: #") \o order),
                 TextCmd(50, 180, 2, Lit("Date: ") \o date_str),
                 Cmd("BAR", <<40, 230, 360, 2>>, "", <<>>),
                 TextCmd(50, 250, 2, Lit("SHIP TO:")),
                 TextCmd(70, 300, 2, <<>>)>>
            \o [k \in DOMAIN shown |->
                   TextCmd(70, 330 + (k - 1) * 50, 2,
                           Take(EscapeQuotes(Strip(shown[k])), 35))]
            \o <<Cmd("BAR", <<40, 500, 360, 2>>, "", <<>>),
                 Cmd("BARCODE", <<80, 520, 128, 80, 1, 0, 2, 2>>, "", Take(bc, 25)),
                 TextCmd(80, 620, 1, Take(bc, 25)),
                 PrintCmd(<<1, 1>>)>>))

simple_text_opt(lines, title) ==
    Joined(Singles(
        opt_prelude
        \o <<TextCmd(50, 30, 3, title), Cmd("BAR", <<50, 80, 400, 4>>, "", <<>>)>>
        \o BodyLines(lines, 8, 40, 50, 110, 55)
        \o <<PrintCmd(<<1, 1>>)>>))

\* the items numbered by enumerate(items[:6]), from 0
packing_list_FromZero(order, items, customer) ==
    LET shown == Take(items, 6)
    IN  Joined(Singles(
            opt_prelude
            \o <<TextCmd(50, 30, 3, Lit("PACKING LIST")),
                 TextCmd(50, 90, 2, Lit("Order: #") \o order),
                 TextCmd(50, 140, 2, Lit("Customer: ") \o Take(customer, 30)),
                 Cmd("BAR", <<50, 190, 400, 3>>, "", <<>>),
                 TextCmd(50, 210, 2, Lit("ITEMS:"))>>
            \o [k \in DOMAIN shown |->
                   TextCmd(70, 260 + (k - 1) * 50, 2,
                           Lit(ToString(k - 1)) \o Lit(". ")
                           \o Take(EscapeQuotes(shown[k]), 35))]
            \o <<PrintCmd(<<1, 1>>)>>))

packing_list(order, items, customer) ==
    LET shown == Take(items, 6)
    IN  Joined(Singles(
            opt_prelude
            \o <<TextCmd(50, 30, 3, Lit("PACKING LIST")),
                 TextCmd(50, 90, 2, Lit("Order: #") \o order),
                 TextCmd(50, 140, 2, Lit("Customer: ") \o Take(customer, 30)),
                 Cmd("BAR", <<50, 190, 400, 3>>, "", <<>>),
                 TextCmd(50, 210, 2, Lit("ITEMS:"))>>
            \o [k \in DOMAIN shown |->
                   TextCmd(70, 260 + (k - 1) * 50, 2,
                           Lit(ToString(k)) \o Lit(". ")
                           \o Take(EscapeQuotes(shown[k]), 35))]
            \o <<PrintCmd(<<1, 1>>)>>))

(***************************************************************************)
(* Print handlers.  stream is the command stream the request built, device *)
(* the writes the printer device received, in order.                       *)
(***************************************************************************)
\* f.write((tspl + "\n").encode())
send_tspl(tspl) ==
    /\ stream' = tspl
    /\ device' = Append(device, tspl \o <<NL>>)

\* f.write(tspl_bytes)
send_tspl_bytes(output) ==
    /\ stream' = output
    /\ device' = Append(device, output)

\* prelude, header, payload, "\nPRINT 1,1\n"
ImageStream(prelude, conv) ==
    Terminated(prelude)
    \o <<BitmapCmd(conv.header), Bin(conv.data), NL, PrintCmd(<<1, 1>>), NL>>

\* POST /print of the Flask server
print_simple(body) ==
    LET lines == Split(Strip(body), "\n")
    IN  /\ send_tspl(simple_text(lines, Lit("ATK FABRICATION"), load_config))
        /\ resp' = Response(200, "printed")
        /\ UNCHANGED out

\* POST /api/print-test/<test_type>
api_print_test(test_type) ==
    LET cfg == load_config
    IN  /\ IF test_type = "direction"
             THEN send_tspl(direction_test(cfg)) /\ resp' = Response(200, "test")
           ELSE IF test_type = "border"
             THEN send_tspl(border_test(cfg)) /\ resp' = Response(200, "test")
           ELSE IF test_type = "center"
             THEN send_tspl(center_test(cfg)) /\ resp' = Response(200, "test")
           ELSE /\ resp' = Response(400, "Unknown test type")
                /\ UNCHANGED <<stream, device>>
        /\ UNCHANGED out

\* a handler that writes the prelude before it decodes the image
print_image_PreludeFirst(im) ==
    LET cfg == load_config
        prelude == Terminated(
            <<Cmd("SIZE", <<cfg.label_width_mm, cfg.label_height_mm>>, "mm", <<>>),
              Cmd("GAP", <<cfg.gap_mm, 0>>, "mm", <<>>),
              Cmd("CLS", <<>>, "", <<>>)>>)
    IN  IF im = NoImage
        THEN /\ resp' = Response(500, "Image processing failed")
             /\ send_tspl_bytes(prelude)
             /\ UNCHANGED out
        ELSE LET conv == image_to_tspl(im, cfg.x_offset, cfg.y_offset, TRUE)
             IN  /\ out' = conv
                 /\ send_tspl_bytes(prelude \o <<BitmapCmd(conv.header), Bin(conv.data), NL,
                                                 PrintCmd(<<1, 1>>), NL>>)
                 /\ resp' = Response(200, "printed")

\* POST /image of the Flask server
print_image(im) ==
    IF im = NoImage
    THEN /\ resp' = Response(500, "Image processing failed")
         /\ UNCHANGED <<out, stream, device>>
    ELSE LET cfg == load_config
             conv == image_to_tspl(im, cfg.x_offset, cfg.y_offset, TRUE)
         IN  /\ out' = conv
             /\ send_tspl_bytes(ImageStream(
                    <<Cmd("SIZE", <<cfg.label_width_mm, cfg.label_height_mm>>, "mm", <<>>),
                      Cmd("GAP", <<cfg.gap_mm, 0>>, "mm", <<>>),
                      Cmd("CLS", <<>>, "", <<>>)>>, conv))
             /\ resp' = Response(200, "printed")

\* Handler.do_POST of the opt server
do_POST(path, body, im) ==
    LET parts == Split(Strip(body), "|")
    IN  IF path = "/print"
        THEN /\ send_tspl(simple_text_opt(Split(Strip(body), "\n"), Lit("ATK FABRICATION")))
             /\ resp' = Response(200, "printed")
             /\ UNCHANGED out
        ELSE IF path = "/shipping"
        THEN IF Len(parts) >= 3
             THEN /\ send_tspl(standard_shipping(parts[1], parts[2], parts[3],
                                   IF Len(parts) > 3 THEN parts[4] ELSE parts[1],
                                   Lit("%Y-%m-%d")))
                  /\ resp' = Response(200, "printed")
                  /\ UNCHANGED out
             ELSE /\ resp' = Response(400, "Format: order|customer|address|barcode")
                  /\ UNCHANGED <<out, stream, device>>
        ELSE IF path = "/packing"
        THEN IF Len(parts) >= 3
             THEN /\ send_tspl(packing_list(parts[1], Split(parts[3], ","), parts[2]))
                  /\ resp' = Response(200, "printed")
                  /\ UNCHANGED out
             ELSE /\ resp' = Response(400, "Format: order|customer|item1,item2,item3")
                  /\ UNCHANGED <<out, stream, device>>
        ELSE IF path = "/image"
        THEN IF im = NoImage
             THEN /\ resp' = Response(500, "Image processing failed")
                  /\ UNCHANGED <<out, stream, device>>
             ELSE LET conv == image_to_tspl_opt(im, X_OFFSET, Y_OFFSET, TRUE)
                  IN  /\ out' = conv
                      /\ send_tspl_bytes(ImageStream(opt_prelude, conv))
                      /\ resp' = Response(200, "printed")
        ELSE /\ resp' = Response(404, "Not Found")
             /\ UNCHANGED <<out, stream, device>>

\* src/image_to_tspl_fixed.py run on an image file
send_image_to_printer(im) ==
    IF im = NoImage
    THEN /\ resp' = Response(1, "Error")
         /\ UNCHANGED <<out, stream, device>>
    ELSE LET conv == image_to_tspl_fixed(im, 0, 0, TRUE)
         IN  /\ out' = conv
             /\ send_tspl_bytes(ImageStream(
                    <<Cmd("SIZE", <<4, 6>>, "", <<>>), Cmd("CLS", <<>>, "", <<>>)>>, conv))
             /\ resp' = Response(0, "Printed")

\* [hex_data[i:i+chunk_size] for i in range(0, len(hex_data), chunk_size)],
\* two hexadecimal digits a byte
RECURSIVE HexChunks(_, _)
HexChunks(bytes, i) ==
    IF i >= Len(bytes) THEN <<>>
    ELSE <<<<HexText(Slice(bytes, i, i + ChunkSize \div 2))>>>>
         \o HexChunks(bytes, i + ChunkSize \div 2)

\* '\n'.join(tspl_lines) of src/image_to_tspl.py
HexStream(conv) == Joined(<<<<BitmapCmd(conv.header)>>>> \o HexChunks(conv.data, 0))

\* src/image_to_tspl.py run on an image file: the commands are printed
image_to_tspl_main(im, x, y) ==
    IF im = NoImage
    THEN /\ resp' = Response(1, "Error")
         /\ UNCHANGED <<out, stream, device>>
    ELSE LET conv == image_to_tspl_hex(im, x, y, TRUE)
         IN  /\ out' = conv
             /\ stream' = HexStream(conv)
             /\ resp' = Response(0, "TSPL Commands")
             /\ UNCHANGED device

(***************************************************************************)
(* The images conversions are applied to.                                  *)
(***************************************************************************)
\* sample intensities: both sides of the 128 threshold, and the extremes
Gray == {0, 127, 128, 255}

\* a uniform background with one distinguished pixel
SparseOfSize(w, h) ==
    { MkImage(w, h, [i \in 1..(w * h) |-> IF i = p THEN fg ELSE bg]) :
        p \in 1..(w * h), bg \in Gray, fg \in Gray }

SparseImages == UNION { SparseOfSize(w, h) : w \in 1..MaxW, h \in 1..MaxH }

\* every black/white pattern of the smallest sizes
FullImages ==
    UNION { { MkImage(w, h, px) : px \in [1..(w * h) -> {0, 255}] } :
              w \in 1..FullW, h \in 1..FullH }

\* the 16x8 uniform grids of the end-to-end cases
EndToEndImages == { NewImage(16, 8, v) : v \in Gray }

\* images wider than the horizontal shift, so that shifted content survives
WideImages ==
    UNION { SparseOfSize(w, h) :
              w \in (Abs(HORIZONTAL_SHIFT_PX) + 1)..(Abs(HORIZONTAL_SHIFT_PX) + 2),
              h \in 1..MaxH }

Images ==
    { im \in SparseImages \cup FullImages \cup EndToEndImages \cup WideImages :
        InThumbBox(im) }

(***************************************************************************)
(* Specification SpecImage: image_to_tspl of each revision applied to a    *)
(* decoded image.                                                          *)
(***************************************************************************)
InitImage ==
    /\ call = NoCall
    /\ threads = <<>>
    /\ img \in Images
    /\ dither \in BOOLEAN
    /\ out = NoOut
    /\ pc = "image"
    /\ cfgFile = NoFile
    /\ bakFile = NoFile
    /\ resp = NoResp
    /\ ops = 0
    /\ stream = <<>>
    /\ device = <<>>
    /\ req = NoReq

ConvertServer ==
    /\ UNCHANGED <<threads, call>>
    /\ pc = "image"
    /\ out' = image_to_tspl(img, 0, 0, dither)
    /\ pc' = "converted"
    /\ UNCHANGED <<img, dither, cfgFile, bakFile, resp, ops, stream, device, req>>

ConvertOpt ==
    /\ UNCHANGED <<threads, call>>
    /\ pc = "image"
    /\ out' = image_to_tspl_opt(img, X_OFFSET, Y_OFFSET, dither)
    /\ pc' = "converted"
    /\ UNCHANGED <<img, dither, cfgFile, bakFile, resp, ops, stream, device, req>>

ConvertFixed ==
    /\ UNCHANGED <<threads, call>>
    /\ pc = "image"
    /\ out' = image_to_tspl_fixed(img, 0, 0, dither)
    /\ pc' = "converted"
    /\ UNCHANGED <<img, dither, cfgFile, bakFile, resp, ops, stream, device, req>>

ConvertHex ==
    /\ UNCHANGED <<threads, call>>
    /\ pc = "image"
    /\ out' = image_to_tspl_hex(img, 0, 0, dither)
    /\ pc' = "converted"
    /\ UNCHANGED <<img, dither, cfgFile, bakFile, resp, ops, stream, device, req>>

NextImage == ConvertServer \/ ConvertOpt \/ ConvertFixed \/ ConvertHex

SpecImage == InitImage /\ [][NextImage]_vars

(***************************************************************************)
(* Specification SpecConfig: set-configuration and nudge requests served   *)
(* one after the other, from a fresh installation (no configuration file). *)
(***************************************************************************)
Payload(x, y, w, h, g) ==
    [x_offset |-> x, y_offset |-> y, label_width_mm |-> w, label_height_mm |-> h,
     gap_mm |-> g]

\* request bodies of POST /api/config
ConfigPayloads ==
    { Payload(IntV(DOT_MAX + 1), Absent, Absent, Absent, Absent),
      Payload(Absent, IntV(DOT_MIN - 1), Absent, Absent, Absent),
      Payload(IntV(-1000), FloatV(79), Absent, Absent, Absent),
      Payload(Absent, Absent, Absent, Absent, IntV(0)),
      Payload(Absent, Absent, FloatV(-10), IntV(50), Absent),
      Payload(BadStr, Absent, Absent, Absent, Absent),
      Payload(IntV(5), Absent, Absent, Absent, Null),
      Payload(IntV(0), IntV(0), FloatV(1000), FloatV(1500), FloatV(30)),
      NoPayload }

\* mm of a nudge, in sixteenths: 1/16 mm, 3/16 mm, 1 mm, 300 mm, both directions
NudgeMms == {-4800, -16, -1, 1, 3, 16, 4800}

\* request bodies of POST /api/nudge
NudgeRequests ==
    { NudgeRequest(a, FloatV(m)) : a \in {"x", "y"}, m \in NudgeMms }
    \cup { NudgeRequest("x", IntV(1)), NudgeRequest("z", FloatV(16)),
           NudgeRequest("x", BadStr), NudgeRequest("y", Null),
           NudgeRequest("", Absent) }

InitConfig ==
    /\ call = NoCall
    /\ threads = <<>>
    /\ img = NoImage
    /\ dither = FALSE
    /\ out = NoOut
    /\ pc = "idle"
    /\ cfgFile = NoFile
    /\ bakFile = NoFile
    /\ resp = NoResp
    /\ ops = 0
    /\ stream = <<>>
    /\ device = <<>>
    /\ req = NoReq

PostConfig ==
    /\ UNCHANGED <<threads, call>>
    /\ ops < MaxOps
    /\ \E payload \in ConfigPayloads : api_config(payload)
    /\ ops' = ops + 1
    /\ UNCHANGED <<img, dither, out, pc, stream, device>>

PostNudge ==
    /\ UNCHANGED <<threads, call>>
    /\ ops < MaxOps
    /\ \E r \in NudgeRequests : api_nudge(r)
    /\ ops' = ops + 1
    /\ UNCHANGED <<img, dither, out, pc, stream, device>>

NextConfig == PostConfig \/ PostNudge

SpecConfig == InitConfig /\ [][NextConfig]_vars

(***************************************************************************)
(* Specification SpecNudge: a client repeats one nudge for ever, from any  *)
(* stored offset in [DOT_MIN, DOT_MAX].  The server answers every request  *)
(* and the client sends the next one: both steps are weakly fair.          *)
(***************************************************************************)
RepeatMms == {-80, -16, -3, -1, 1, 3, 16, 80}

\* the offset of the axis the repeated nudge moves
NudgedOffset == IF req.axis = "x" THEN load_config.x_offset ELSE load_config.y_offset

InitNudge ==
    /\ call = NoCall
    /\ threads = <<>>
    /\ img = NoImage
    /\ dither = FALSE
    /\ out = NoOut
    /\ pc = "idle"
    /\ \E start \in DOT_MIN..DOT_MAX, a \in {"x", "y"}, m \in RepeatMms :
         /\ req = NudgeRequest(a, FloatV(m))
         /\ cfgFile = FileOf(IF a = "x" THEN [DEFAULT_CONFIG EXCEPT !.x_offset = start]
                                         ELSE [DEFAULT_CONFIG EXCEPT !.y_offset = start])
    /\ bakFile = NoFile
    /\ resp = NoResp
    /\ ops = 0
    /\ stream = <<>>
    /\ device = <<>>

\* the client posts its nudge again
SendNudge ==
    /\ UNCHANGED <<threads, call>>
    /\ pc = "idle"
    /\ pc' = "nudge"
    /\ UNCHANGED <<img, dither, out, cfgFile, bakFile, resp, ops, stream, device, req>>

\* the server runs api_nudge on it
ServeNudge ==
    /\ UNCHANGED <<threads, call>>
    /\ pc = "nudge"
    /\ api_nudge(req)
    /\ pc' = "idle"
    /\ UNCHANGED <<img, dither, out, ops, stream, device>>

NextNudge == SendNudge \/ ServeNudge

SpecNudge ==
    InitNudge /\ [][NextNudge]_vars /\ WF_vars(SendNudge) /\ WF_vars(ServeNudge)

(***************************************************************************)
(* Specification SpecPrint: one print request of any kind, served against  *)
(* a configuration file left by earlier requests.                          *)
(***************************************************************************)
MaxBody == 4

RECURSIVE StringsOver(_, _)
StringsOver(alphabet, n) ==
    IF n = 0 THEN {<<>>}
    ELSE LET shorter == StringsOver(alphabet, n - 1)
         IN  shorter \cup { Append(str, c) : str \in shorter, c \in alphabet }

\* n times the character c
Repeat(c, n) == [i \in 1..n |-> c]

\* a line of n characters "a" with a double quote at position q (none for q = 0)
QuotedLine(n, q) == [i \in 1..n |-> IF i = q THEN "\"" ELSE "a"]

\* the lines with line feeds between them
RECURSIVE JoinLines(_)
JoinLines(lines) ==
    IF lines = <<>> THEN <<>>
    ELSE IF Len(lines) = 1 THEN Head(lines)
    ELSE Head(lines) \o <<"\n">> \o JoinLines(Tail(lines))

\* k numbered one-character lines
NumberedLines(k) == [i \in 1..k |-> <<ToString(i % 10)>>]

\* bodies of many lines; of one long line with a quote before, at or after
\* the budgets of 35 and 40 characters; of a 100-character line and nine more
LongBodies ==
    { JoinLines(NumberedLines(k)) : k \in 1..10 }
    \cup { QuotedLine(n, q) : n \in {39, 40, 41, 100}, q \in {0, 1, 34, 35, 36, 39, 40, 41} }
    \cup { JoinLines(<<QuotedLine(100, 0)>> \o NumberedLines(9)) }

\* bodies of POST /print
TextBodies == StringsOver({"a", "\"", "\n", " "}, MaxBody) \cup LongBodies

\* n characters, the digits 1, 2, ..., 9, 0, 1, ...
Counting(n) == [i \in 1..n |-> ToString(i % 10)]

\* the fields with "|" between them
RECURSIVE JoinFields(_)
JoinFields(fields) ==
    IF fields = <<>> THEN <<>>
    ELSE IF Len(fields) = 1 THEN Head(fields)
    ELSE Head(fields) \o <<"|">> \o JoinFields(Tail(fields))

\* third fields: addresses and item lists without a comma (empty, shorter
\* and longer than the chunks of 30 and the 90 characters read) and with
\* commas (more pieces than are shown, a piece longer than its budget,
\* pieces with blanks around them)
ThirdFields ==
    { Counting(n) : n \in {0, 1, 30, 31, 60, 95} }
    \cup { <<"a", ",", "b">>, <<"a", ",", "b", ",", "c", ",", "d">>,
            <<"1", ",", "2", ",", "3", ",", "4", ",", "5", ",", "6", ",", "7">>,
            Counting(40) \o <<",", "b">>,
            <<" ", "a", " ", ",", " ", "b", " ">>,
            <<"a", ",", ",">> }

\* order ids and barcodes shorter and longer than the 25 characters shown
LongFieldBodies ==
    { JoinFields(<<order, <<"c">>, third>> \o tail) :
        order \in {<<"7">>, Repeat("7", 26)},
        third \in ThirdFields,
        tail \in {<<>>, <<<<>>>>, <<<<"9">>>>, <<Repeat("9", 26)>>} }

\* bodies of POST /shipping and POST /packing
FieldBodies == StringsOver({"a", "\"", "|", ","}, MaxBody) \cup LongFieldBodies

\* bodies of POST /image, decoded; NoImage is a body that is no image
PrintImages ==
    EndToEndImages \cup SparseOfSize(MaxW, MaxH)
    \cup SparseOfSize(Abs(HORIZONTAL_SHIFT_PX) + 1, 1) \cup {NoImage}

TestTypes == {"direction", "border", "center", "bogus"}

\* configuration files earlier requests can have left
PrintConfigs ==
    { NoFile,
      FileOf(Payload(DOT_MIN, 40, 1000, 1500, 30)),
      FileOf(Payload(DOT_MAX + 1, -7, 508, 254, 0)) }

InitPrint ==
    /\ call = NoCall
    /\ threads = <<>>
    /\ img = NoImage
    /\ dither = TRUE
    /\ out = NoOut
    /\ pc = "idle"
    /\ cfgFile \in PrintConfigs
    /\ bakFile = NoFile
    /\ resp = NoResp
    /\ ops = 0
    /\ stream = <<>>
    /\ device = <<>>
    /\ req = NoReq

PrintSimple ==
    /\ UNCHANGED <<threads, call>>
    /\ pc = "idle"
    /\ \E body \in TextBodies :
         /\ req' = PrintRequest("print", body)
         /\ print_simple(body)
    /\ pc' = "served"
    /\ UNCHANGED <<img, dither, cfgFile, bakFile, ops>>

PrintTest ==
    /\ UNCHANGED <<threads, call>>
    /\ pc = "idle"
    /\ \E test_type \in TestTypes :
         /\ req' = PrintRequest("test", Lit(test_type))
         /\ api_print_test(test_type)
    /\ pc' = "served"
    /\ UNCHANGED <<img, dither, cfgFile, bakFile, ops>>

PrintImage ==
    /\ UNCHANGED <<threads, call>>
    /\ pc = "idle"
    /\ \E im \in PrintImages :
         /\ img' = im
         /\ print_image(im)
    /\ req' = PrintRequest("image", <<>>)
    /\ pc' = "served"
    /\ UNCHANGED <<dither, cfgFile, bakFile, ops>>

OptPrint ==
    /\ UNCHANGED <<threads, call>>
    /\ pc = "idle"
    /\ \E body \in TextBodies :
         /\ req' = PrintRequest("opt_print", body)
         /\ do_POST("/print", body, NoImage)
    /\ pc' = "served"
    /\ UNCHANGED <<img, dither, cfgFile, bakFile, ops>>

OptShipping ==
    /\ UNCHANGED <<threads, call>>
    /\ pc = "idle"
    /\ \E body \in FieldBodies :
         /\ req' = PrintRequest("shipping", body)
         /\ do_POST("/shipping", body, NoImage)
    /\ pc' = "served"
    /\ UNCHANGED <<img, dither, cfgFile, bakFile, ops>>

OptPacking ==
    /\ UNCHANGED <<threads, call>>
    /\ pc = "idle"
    /\ \E body \in FieldBodies :
         /\ req' = PrintRequest("packing", body)
         /\ do_POST("/packing", body, NoImage)
    /\ pc' = "served"
    /\ UNCHANGED <<img, dither, cfgFile, bakFile, ops>>

OptImage ==
    /\ UNCHANGED <<threads, call>>
    /\ pc = "idle"
    /\ \E im \in PrintImages :
         /\ img' = im
         /\ do_POST("/image", <<>>, im)
    /\ req' = PrintRequest("opt_image", <<>>)
    /\ pc' = "served"
    /\ UNCHANGED <<dither, cfgFile, bakFile, ops>>

SendImageToPrinter ==
    /\ UNCHANGED <<threads, call>>
    /\ pc = "idle"
    /\ \E im \in PrintImages :
         /\ img' = im
         /\ send_image_to_printer(im)
    /\ req' = PrintRequest("send_image", <<>>)
    /\ pc' = "served"
    /\ UNCHANGED <<dither, cfgFile, bakFile, ops>>

ConvertToText ==
    /\ UNCHANGED <<threads, call>>
    /\ pc = "idle"
    /\ \E im \in PrintImages, x \in {0, 16}, y \in {0, 24} :
         /\ img' = im
         /\ image_to_tspl_main(im, x, y)
    /\ req' = PrintRequest("convert", <<>>)
    /\ pc' = "served"
    /\ UNCHANGED <<dither, cfgFile, bakFile, ops>>

NextPrint ==
    \/ PrintSimple \/ PrintTest \/ PrintImage
    \/ OptPrint \/ OptShipping \/ OptPacking \/ OptImage
    \/ SendImageToPrinter \/ ConvertToText

SpecPrint == InitPrint /\ [][NextPrint]_vars

(***************************************************************************)
(* Specification SpecThreaded: the Flask server runs with threaded=True,   *)
(* so two requests are served by two threads at once; no handler takes a   *)
(* lock.  A thread's steps are the file and device operations of its       *)
(* handler: load_config and save_config for a nudge; open, write and close *)
(* of PRINTER_DEVICE for a print.  The installation is fresh.              *)
(***************************************************************************)
Threads == {1, 2}

Thread(r) ==
    [pc |-> "start", req |-> r, cfg |-> DEFAULT_CONFIG, tspl |-> <<>>, code |-> 0]

\* the requests two clients send at once: nudges of 1 mm, -1 mm and 2.5 mm,
\* plain-text prints
ThreadRequests ==
    { NudgeRequest(a, FloatV(m)) : a \in {"x", "y"}, m \in {-16, 16, 40} }
    \cup { PrintRequest("print", body) : body \in {<<"a">>, <<"b", "\n", "c">>} }

\* the thread has PRINTER_DEVICE open for writing
HoldsDevice(t) == threads[t].pc \in {"open", "written"}

InitThreaded ==
    /\ call = NoCall
    /\ img = NoImage
    /\ dither = FALSE
    /\ out = NoOut
    /\ pc = "idle"
    /\ cfgFile = NoFile
    /\ bakFile = NoFile
    /\ resp = NoResp
    /\ ops = 0
    /\ stream = <<>>
    /\ device = <<>>
    /\ req = NoReq
    /\ threads \in [Threads -> { Thread(r) : r \in ThreadRequests }]

\* api_nudge up to cfg = load_config()
NudgeLoad(t) ==
    /\ UNCHANGED call
    /\ threads[t].pc = "start"
    /\ threads[t].req.op = "nudge"
    /\ threads' = [threads EXCEPT ![t].cfg = load_config, ![t].pc = "loaded"]
    /\ UNCHANGED <<img, dither, out, pc, cfgFile, bakFile, resp, ops, stream, device, req>>

\* api_nudge from delta_dots to save_config(cfg)
NudgeSave(t) ==
    /\ UNCHANGED call
    /\ threads[t].pc = "loaded"
    /\ LET r == threads[t].req
           cfg == threads[t].cfg
           delta_dots == DeltaDots(PyFloatMm(r.mm).v)
           nudged == IF r.axis = "x"
                     THEN [cfg EXCEPT !.x_offset = Clamp(cfg.x_offset + delta_dots)]
                     ELSE [cfg EXCEPT !.y_offset = Clamp(cfg.y_offset + delta_dots)]
       IN  /\ save_config(nudged)
           /\ threads' = [threads EXCEPT ![t].cfg = nudged, ![t].pc = "done",
                                         ![t].code = 200]
    /\ UNCHANGED <<img, dither, out, pc, resp, ops, stream, device, req>>

\* print_simple up to open(PRINTER_DEVICE, "wb")
PrintOpen(t) ==
    /\ UNCHANGED call
    /\ threads[t].pc = "start"
    /\ threads[t].req.op = "print"
    /\ threads' = [threads EXCEPT
                     ![t].cfg = load_config,
                     ![t].tspl = simple_text(Split(Strip(threads[t].req.body), "\n"),
                                             Lit("ATK FABRICATION"), load_config),
                     ![t].pc = "open"]
    /\ UNCHANGED <<img, dither, out, pc, cfgFile, bakFile, resp, ops, stream, device, req>>

\* the same where the device driver refuses a second open: the request fails
PrintOpenBusy(t) ==
    /\ UNCHANGED call
    /\ threads[t].pc = "start"
    /\ threads[t].req.op = "print"
    /\ \E u \in Threads \ {t} : HoldsDevice(u)
    /\ threads' = [threads EXCEPT ![t].cfg = load_config, ![t].pc = "done",
                                  ![t].code = 500]
    /\ UNCHANGED <<img, dither, out, pc, cfgFile, bakFile, resp, ops, stream, device, req>>

\* f.write((tspl_data + "\n").encode())
PrintWrite(t) ==
    /\ UNCHANGED call
    /\ threads[t].pc = "open"
    /\ device' = Append(device, threads[t].tspl \o <<NL>>)
    /\ threads' = [threads EXCEPT ![t].pc = "written"]
    /\ UNCHANGED <<img, dither, out, pc, cfgFile, bakFile, resp, ops, stream, req>>

\* the end of the with block closes the device
PrintClose(t) ==
    /\ UNCHANGED call
    /\ threads[t].pc = "written"
    /\ threads' = [threads EXCEPT ![t].pc = "done", ![t].code = 200]
    /\ UNCHANGED <<img, dither, out, pc, cfgFile, bakFile, resp, ops, stream, device, req>>

NextThreaded ==
    \E t \in Threads :
        \/ NudgeLoad(t) \/ NudgeSave(t)
        \/ PrintOpen(t) \/ PrintOpenBusy(t) \/ PrintWrite(t) \/ PrintClose(t)

SpecThreaded == InitThreaded /\ [][NextThreaded]_vars

(***************************************************************************)
(* Specification SpecPre: the two preprocessing functions of the opt       *)
(* server, each called on an image; the shift with any shift_px.           *)
(***************************************************************************)
\* an image whose samples differ from their neighbours
GradientImage(w, h) == MkImage(w, h, [i \in 1..(w * h) |-> (i * 37) % 256])

\* h rows of one sample: near-white rows (245..255) above row top, the
\* sample v in row top, varying samples below
TallImage(h, top, v) ==
    MkImage(1, h, [i \in 1..h |->
        IF i - 1 < top THEN 255 - (i % 11)
        ELSE IF i - 1 = top THEN v
        ELSE (i * 37) % 256])

\* heights just above the cap and far above it; content at, around and far
\* below the cap, or nowhere (top = h)
TallImages ==
    { TallImage(h, top, v) :
        h \in {MAX_TOP_TRIM_PX + 2, 501},
        top \in {0, 1, MAX_TOP_TRIM_PX - 1, MAX_TOP_TRIM_PX, MAX_TOP_TRIM_PX + 1, 500, 501},
        v \in {0, WHITE_THRESHOLD - 1} }

PreImages ==
    { GradientImage(w, h) : w \in 1..MaxW, h \in 1..MaxH }
    \cup SparseOfSize(FullW, FullH) \cup TallImages

ShiftAmounts == (0 - MaxW - 1)..(MaxW + 1)

InitPre ==
    /\ img \in PreImages
    /\ \E d \in ShiftAmounts : call = Call("pending", d)
    /\ dither = FALSE
    /\ out = NoOut
    /\ pc = "call"
    /\ cfgFile = NoFile
    /\ bakFile = NoFile
    /\ resp = NoResp
    /\ ops = 0
    /\ stream = <<>>
    /\ device = <<>>
    /\ req = NoReq
    /\ threads = <<>>

ShiftImage ==
    /\ pc = "call"
    /\ out' = Returned("shift", shift_image_horizontally(img, call.shift_px))
    /\ call' = [call EXCEPT !.fn = "shift_image_horizontally"]
    /\ pc' = "returned"
    /\ UNCHANGED <<img, dither, cfgFile, bakFile, resp, ops, stream, device, req, threads>>

TrimImage ==
    /\ pc = "call"
    /\ out' = Returned("trim", trim_top_whitespace(img))
    /\ call' = [call EXCEPT !.fn = "trim_top_whitespace"]
    /\ pc' = "returned"
    /\ UNCHANGED <<img, dither, cfgFile, bakFile, resp, ops, stream, device, req, threads>>

NextPre == ShiftImage \/ TrimImage

SpecPre == InitPre /\ [][NextPre]_vars

(***************************************************************************)
(* Properties of the conversion (checked under SpecImage).                 *)
(***************************************************************************)
\* bit i (0 = least significant) of a byte
Bit(byte, i) == (byte \div (2 ^ i)) % 2

\* the bit of the packed buffer that stands for pixel (row, col)
PackedBit(row, col) ==
    Bit(out.data[row * out.header.widthBytes + (col \div 8) + 1], 7 - (col % 8))

\* n = ceil(w / 8)
IsCeil8(n, w) == 8 * (n - 1) < w /\ w <= 8 * n

\* rows above the first row of the decoded image that holds a pixel below 245
\* (0 when no pixel is below 245)
LeadingWhiteRows ==
    LET content == { r \in 0..(img.h - 1) :
                       \E c \in 0..(img.w - 1) : PixelAt(img, r, c) < WHITE_THRESHOLD }
    IN  IF content = {} THEN 0
        ELSE CHOOSE r \in content : \A q \in content : r <= q

\* rows the "opt" revision trims before packing; the other revisions trim none
RowsTrimmed ==
    IF out.variant = "opt" THEN Min(LeadingWhiteRows, MAX_TOP_TRIM_PX) ELSE 0

C3_PaddingZero ==
    (pc = "converted" /\ out.width % 8 # 0) =>
        \A r \in 0..(out.height - 1) :
            out.data[(r + 1) * out.header.widthBytes]
                % (2 ^ (8 * out.header.widthBytes - out.width)) = 0

\* C3 witness: a dithered 9-wide row whose last byte holds a printed pixel and padding
C3_Witness ==
    /\ pc = "converted"
    /\ out.dither
    /\ out.width = 9
    /\ out.data[out.header.widthBytes] = 128

\* the 16x8 grid of one intensity
IsUniform16x8(v) == img.w = 16 /\ img.h = 8 /\ \A i \in DOMAIN img.px : img.px[i] = v

AllBytes(v) == Len(out.data) = 16 /\ \A i \in DOMAIN out.data : out.data[i] = v

IsCmd(e, name) == e.t = "cmd" /\ e.name = name

\* the declared widthBytes times the declared height of a BITMAP command
DeclaredBytes(e) == e.args[3] * e.args[4]

\* C5: in every image command stream the program builds, the BITMAP header
\* is followed at once, with nothing after its trailing comma, by a raw
\* binary payload of exactly widthBytes * height bytes.
C5_RawPayloadFollows ==
    \A k \in DOMAIN stream :
        IsCmd(stream[k], "BITMAP") =>
            /\ k < Len(stream)
            /\ stream[k + 1].t = "bin"
            /\ Len(stream[k + 1].data) = DeclaredBytes(stream[k])

\* the requests that print: plain text, the three tests, shipping, packing
\* list and image, of either server, and the image script that prints
PrintOps ==
    {"print", "test", "image", "opt_print", "shipping", "packing", "opt_image",
     "send_image"}

\* a PRINT command with only line terminators after it
EndsWithPrint(s) ==
    \E k \in DOMAIN s :
        /\ IsCmd(s[k], "PRINT")
        /\ \A j \in (k + 1)..Len(s) : s[j].t = "nl"

\* C6: every command stream built for a print request (plain text, shipping,
\* packing list, border test, center test, direction test, image) has PRINT
\* as its last protocol line, nothing but line ends after it, and that is
\* what the device receives.
C6_PrintIsLast ==
    (pc = "served" /\ req.op \in PrintOps) =>
        /\ stream # <<>> => EndsWithPrint(stream)
        /\ \A k \in DOMAIN device : EndsWithPrint(device[k])
        /\ (stream = <<>>) = (device = <<>>)
        /\ (stream = <<>>) = (resp.code \notin {0, 200})

\* a plain-text request served: the last body line, a lone quote written
\* escaped, then the print trigger and the end of the stream
C6_Witness ==
    /\ pc = "served"
    /\ req.op = "print"
    /\ resp.code = 200
    /\ Len(device) = 1
    /\ \E k \in DOMAIN stream :
         /\ IsCmd(stream[k], "TEXT")
         /\ stream[k].text = <<"\\", "\"">>
         /\ k + 3 = Len(stream)
         /\ IsCmd(stream[k + 2], "PRINT")
    /\ EndsWithPrint(stream)

(***************************************************************************)
(* Properties of the configuration (SpecConfig, SpecNudge).                *)
(***************************************************************************)
InRange(v) == DOT_MIN <= v /\ v <= DOT_MAX

\* C7: after any sequence of set-configuration and nudge requests from the default
\* configuration, the stored x_offset and y_offset lie within [-300, 300].
C7_OffsetsInRange ==
    InRange(load_config.x_offset) /\ InRange(load_config.y_offset)

\* the sizes a payload carries, as api_config converts them
CarriedSizes(payload) ==
    { PyFloat(payload[k]).v :
        k \in { j \in {"label_width_mm", "label_height_mm", "gap_mm"} :
                  payload[j].kind \in {"int", "float"} } }

\* C8: the stored label_width_mm, label_height_mm and gap_mm are strictly positive, and
\* an update carrying a zero or negative size or gap is rejected.
C8_SizesPositive ==
    /\ load_config.label_width_mm > 0
    /\ load_config.label_height_mm > 0
    /\ load_config.gap_mm > 0
    /\ (req.op = "config" /\ \E v \in CarriedSizes(req.payload) : v <= 0) => resp.code = 400

\* C9 as stated: repeating a nudge by a positive delta never leaves [-300, 300], reaches
\* exactly 300 and stays there (-300 for a negative delta), and no nudge is rejected.
C9_Saturates ==
    /\ [](InRange(NudgedOffset) /\ resp.code # 400)
    /\ (req.mm.v > 0) => <>[](NudgedOffset = DOT_MAX)
    /\ (req.mm.v < 0) => <>[](NudgedOffset = DOT_MIN)

\* C9 amended: as stated, for a delta that rounds to at least one dot
\* (int(round(8 * mm)) >= 1, or <= -1 for the lower bound); a smaller delta rounds to
\* 0 dots and leaves the offset where it is.
\* int(round(8 * mm)) of the repeated nudge: its mm is req.mm.v sixteenths, which
\* is req.mm.v halves of a dot (the request never changes in SpecNudge)
RepeatedDots == RoundHalf(req.mm.v)

C9_SaturatesByWholeDots ==
    /\ [](InRange(NudgedOffset) /\ resp.code # 400)
    /\ <>[](RepeatedDots >= 1 => NudgedOffset = DOT_MAX)
    /\ <>[](RepeatedDots <= -1 => NudgedOffset = DOT_MIN)
    /\ [][(RepeatedDots = 0) => (NudgedOffset' = NudgedOffset)]_vars

\* C9 witness: a positive nudge from below the bound was cut off at exactly 300
C9_Witness ==
    /\ pc = "idle"
    /\ resp.code = 200
    /\ req.axis = "x"
    /\ bakFile.exists
    /\ bakFile.cfg.x_offset < DOT_MAX
    /\ bakFile.cfg.x_offset + RepeatedDots > DOT_MAX
    /\ load_config.x_offset = DOT_MAX

\* C10: a served nudge of axis a by a whole number d of millimetres sets that offset to
\* clamp(old + 8d, -300, 300); nudging x by +1.0 mm adds exactly 8 whenever
\* old + 8 <= 300.
C10_EightDotsPerMm ==
    [][(/\ ops' = ops + 1
        /\ req'.op = "nudge"
        /\ resp'.code = 200
        /\ PyFloatMm(req'.mm).v % 16 = 0)
       => LET d == PyFloatMm(req'.mm).v \div 16
              old == IF req'.axis = "x" THEN load_config.x_offset ELSE load_config.y_offset
              new == IF req'.axis = "x" THEN cfgFile'.cfg.x_offset ELSE cfgFile'.cfg.y_offset
              sum == old + 8 * d
          IN  /\ new = (IF sum > 300 THEN 300 ELSE IF sum < -300 THEN -300 ELSE sum)
              /\ (req'.axis = "x" /\ d = 1 /\ old + 8 <= 300) => new = old + 8]_vars

\* a supplied field that is no number: a non-numeric string or null
Malformed(payload) == \E k \in ConfigKeys : payload[k].kind \in {"str", "null"}

\* C11: a set-configuration request with any supplied field that does not
\* parse to its numeric kind is answered with an error and leaves the
\* configuration file, and its backup, exactly as they were.
C11_RejectedWhole ==
    [][(req'.op = "config" /\ Malformed(req'.payload)) =>
          /\ resp'.code = 400
          /\ cfgFile' = cfgFile
          /\ bakFile' = bakFile]_vars

\* a request carrying a good x_offset and a null gap was refused, and the
\* stored x_offset is not the one it carried
C11_Witness ==
    /\ req.op = "config"
    /\ req.payload.x_offset = IntV(5)
    /\ req.payload.gap_mm = Null
    /\ resp.code = 400
    /\ cfgFile.exists
    /\ cfgFile.cfg.x_offset # 5

(***************************************************************************)
(* Properties of concurrent requests (SpecThreaded).                       *)
(***************************************************************************)
AllDone == \A t \in Threads : threads[t].pc = "done"

\* delta_dots of the nudge thread t serves
ThreadDelta(t) == DeltaDots(PyFloatMm(threads[t].req.mm).v)

\* both threads served a nudge of the same axis, and the offset stays inside
\* the clamp range after either nudge and after both
TwoNudgesInRange ==
    /\ \A t \in Threads : threads[t].req.op = "nudge"
    /\ threads[1].req.axis = threads[2].req.axis
    /\ LET start == DEFAULT_CONFIG[threads[1].req.axis \o "_offset"]
       IN  /\ InRange(start + ThreadDelta(1))
           /\ InRange(start + ThreadDelta(2))
           /\ InRange(start + ThreadDelta(1) + ThreadDelta(2))

\* C12: two nudges of one axis served at once never lose a delta: when both
\* are done the stored offset is the initial offset plus both deltas.
C12_NoLostDelta ==
    (AllDone /\ TwoNudgesInRange) =>
        LET k == threads[1].req.axis \o "_offset"
        IN  load_config[k] = DEFAULT_CONFIG[k] + ThreadDelta(1) + ThreadDelta(2)

\* C13: at no time do two print requests have the printer device open for
\* writing at once.
C13_DeviceExclusive ==
    \A t \in Threads, u \in Threads : (HoldsDevice(t) /\ HoldsDevice(u)) => t = u

(***************************************************************************)
(* Properties of the preprocessing functions (SpecPre).                    *)
(***************************************************************************)
\* sample (row, col) of the returned image
ReturnedAt(row, col) == out.pre[row * out.width + col + 1]

\* C14: shift_image_horizontally(img, d) keeps width and height; pixel
\* (row, col) is the input pixel (row, col - d) when 0 <= col - d < width and
\* white otherwise, so nothing wraps and |d| >= width gives an all-white image.
C14_ShiftFillsWhite ==
    (pc = "returned" /\ call.fn = "shift_image_horizontally") =>
        /\ out.width = img.w
        /\ out.height = img.h
        /\ Len(out.pre) = img.w * img.h
        /\ \A row \in 0..(img.h - 1), col \in 0..(img.w - 1) :
             ReturnedAt(row, col) =
                IF 0 <= col - call.shift_px /\ col - call.shift_px < img.w
                THEN PixelAt(img, row, col - call.shift_px)
                ELSE 255
        /\ Abs(call.shift_px) >= img.w => \A i \in DOMAIN out.pre : out.pre[i] = 255

\* a shift two to the left of an image at least three wide that has dark
\* samples: the last two columns are white, the first one holds column 2
C14_Witness ==
    /\ pc = "returned"
    /\ call.fn = "shift_image_horizontally"
    /\ call.shift_px = -2
    /\ img.w >= 3
    /\ PixelAt(img, 0, 2) < 128
    /\ ReturnedAt(0, 0) = PixelAt(img, 0, 2)
    /\ ReturnedAt(0, img.w - 1) = 255

\* rows holding a sample strictly below the white threshold
ContentRows ==
    { row \in 0..(img.h - 1) :
        \E col \in 0..(img.w - 1) : PixelAt(img, row, col) < WHITE_THRESHOLD }

\* the first of them
TopRow == CHOOSE row \in ContentRows : \A other \in ContentRows : row <= other

\* C15: trim_top_whitespace removes exactly min(top, 80) rows from the top,
\* top being the first row with a sample strictly below 245, keeps the other
\* rows in order and the width; with no such sample the image is unchanged.
C15_TrimCapped ==
    (pc = "returned" /\ call.fn = "trim_top_whitespace") =>
        IF ContentRows = {}
        THEN out.width = img.w /\ out.height = img.h /\ out.pre = img.px
        ELSE LET cut == Min(TopRow, MAX_TOP_TRIM_PX)
             IN  /\ out.width = img.w
                 /\ out.height = img.h - cut
                 /\ Len(out.pre) = img.w * (img.h - cut)
                 /\ \A row \in 0..(img.h - cut - 1), col \in 0..(img.w - 1) :
                      ReturnedAt(row, col) = PixelAt(img, row + cut, col)

\* content starting at row 500 is trimmed by 80 rows
C15_Witness ==
    /\ pc = "returned"
    /\ call.fn = "trim_top_whitespace"
    /\ ContentRows # {}
    /\ TopRow = 500
    /\ img.h = 501
    /\ out.height = 501 - 80

(***************************************************************************)
(* Properties of the label templates (SpecPrint).                          *)
(***************************************************************************)
\* the TEXT commands of the stream, in order
TextCmds == SelectSeq(stream, LAMBDA e : IsCmd(e, "TEXT"))

\* the body lines of a plain-text request
RequestLines == Split(Strip(req.body), "\n")

HasQuote(line) == \E i \in DOMAIN line : line[i] = "\""

\* C16: the plain-text label emits one TEXT command for the title and one
\* for each of the first min(n, 8) body lines, in input order; the string of
\* each body line has at most 40 characters, exactly 40 for a line of 40 or
\* more, and the request succeeds.
C16_EightLinesOfForty ==
    (pc = "served" /\ req.op \in {"print", "opt_print"}) =>
        /\ resp.code = 200
        /\ Len(TextCmds) = 1 + Min(Len(RequestLines), 8)
        /\ TextCmds[1].text = Lit("ATK FABRICATION")
        /\ \A k \in 1..Min(Len(RequestLines), 8) :
             LET line == RequestLines[k]
                 text == TextCmds[k + 1].text
             IN  /\ Len(text) <= 40
                 /\ Len(line) >= 40 => Len(text) = 40
                 /\ ~HasQuote(line) => text = SubSeq(line, 1, Min(Len(line), 40))

\* ten body lines, the first of 100 characters: nine TEXT commands, the
\* second carrying exactly 40 characters
C16_Witness ==
    /\ pc = "served"
    /\ req.op = "print"
    /\ Len(RequestLines) = 10
    /\ Len(RequestLines[1]) = 100
    /\ Len(TextCmds) = 9
    /\ Len(TextCmds[2].text) = 40
    /\ TextCmds[9].text = <<"7">>

\* the quoted strings built from caller-supplied lines: every TEXT of a
\* plain-text label but the title, the address lines of a shipping label,
\* the item lines of a packing list
LineTexts ==
    { k \in DOMAIN stream :
        /\ IsCmd(stream[k], "TEXT")
        /\ \/ req.op \in {"print", "opt_print"} /\ stream[k].args[3] = 2
           \/ req.op = "shipping" /\ stream[k].args[1] = 70 /\ stream[k].args[2] >= 330
           \/ req.op = "packing" /\ stream[k].args[1] = 70 }

\* every double quote follows a backslash, and no backslash is left alone at
\* the end, where it would escape the closing quote
SafelyQuoted(text) ==
    /\ \A i \in DOMAIN text : text[i] = "\"" => (i > 1 /\ text[i - 1] = "\\")
    /\ text # <<>> => text[Len(text)] # "\\"

\* C17: in every emitted TEXT command built from a caller-supplied line,
\* each double quote inside the quoted string is preceded by a backslash and
\* the string does not end with a lone backslash, also when the quote falls
\* at the truncation boundary.
C17_QuotesEscaped ==
    pc = "served" => \A k \in LineTexts : SafelyQuoted(stream[k].text)

\* the fields of a shipping or packing request
RequestFields == Split(Strip(req.body), "|")

\* the address TEXT commands of a shipping label, in order
AddressCmds ==
    SelectSeq(stream, LAMBDA e : IsCmd(e, "TEXT") /\ e.args[1] = 70 /\ e.args[2] >= 330)

\* the commands of the stream with the given name, in order
CmdsNamed(name) == SelectSeq(stream, LAMBDA e : IsCmd(e, name))

\* the TEXT command beneath the barcode
BarcodeTexts ==
    SelectSeq(stream, LAMBDA e : IsCmd(e, "TEXT") /\ e.args[1] = 80 /\ e.args[2] = 620)

\* the lines an address is split into: its comma-separated pieces, or its
\* consecutive chunks of 30 characters
AddressPieces(address) ==
    IF \E i \in DOMAIN address : address[i] = ","
    THEN Split(address, ",")
    ELSE [k \in 1..((Len(address) + 29) \div 30) |->
             SubSeq(address, 30 * (k - 1) + 1, Min(30 * k, Len(address)))]

\* C18: the shipping label emits at most 3 address TEXT lines (the comma
\* pieces of the address when it has a comma, else its consecutive chunks of
\* 30 characters), each of at most 35 characters; BARCODE and the TEXT beneath
\* it carry the same value, the supplied barcode when given and non-empty and
\* the order id otherwise, capped at 25 characters.
C18_AddressAndBarcode ==
    (pc = "served" /\ req.op = "shipping" /\ resp.code = 200) =>
        LET order == RequestFields[1]
            address == RequestFields[3]
            pieces == AddressPieces(address)
            barcode == IF Len(RequestFields) > 3 /\ RequestFields[4] # <<>>
                       THEN RequestFields[4] ELSE order
        IN  /\ Len(AddressCmds) = Min(Len(pieces), 3)
            /\ \A k \in DOMAIN AddressCmds :
                 /\ Len(AddressCmds[k].text) <= 35
                 /\ ~HasQuote(pieces[k]) =>
                       AddressCmds[k].text = Take(Strip(pieces[k]), 35)
            /\ Len(CmdsNamed("BARCODE")) = 1
            /\ Len(BarcodeTexts) = 1
            /\ CmdsNamed("BARCODE")[1].text = BarcodeTexts[1].text
            /\ BarcodeTexts[1].text = SubSeq(barcode, 1, Min(Len(barcode), 25))

\* an address of 95 characters without a comma and a barcode of 26: three
\* address lines, the third holding characters 61 to 90, and 25 characters
\* of the barcode
C18_Witness ==
    /\ pc = "served"
    /\ req.op = "shipping"
    /\ resp.code = 200
    /\ Len(RequestFields) = 4
    /\ Len(RequestFields[3]) = 95
    /\ Len(RequestFields[4]) = 26
    /\ Len(AddressCmds) = 3
    /\ AddressCmds[3].text = SubSeq(RequestFields[3], 61, 90)
    /\ CmdsNamed("BARCODE")[1].text = Repeat("9", 25)

\* the item TEXT commands of a packing list, in order
ItemCmds == SelectSeq(stream, LAMBDA e : IsCmd(e, "TEXT") /\ e.args[1] = 70)

\* C19: the packing list emits exactly min(n, 6) item lines for n items, in
\* input order, the i-th prefixed with the number i.
C19_ItemsNumbered ==
    (pc = "served" /\ req.op = "packing" /\ resp.code = 200) =>
        LET items == Split(RequestFields[3], ",")
        IN  /\ Len(ItemCmds) = Min(Len(items), 6)
            /\ \A i \in DOMAIN ItemCmds :
                 LET text == ItemCmds[i].text
                 IN  /\ Len(text) >= 2
                     /\ text[1] = ToString(i)
                     /\ text[2] = ". "
                     /\ ~HasQuote(items[i]) =>
                           SubSeq(text, 3, Len(text)) = Take(items[i], 35)
                     /\ i > 1 => ItemCmds[i].args[2] > ItemCmds[i - 1].args[2]

\* seven items: six lines, the sixth numbered 6 and holding the sixth item
C19_Witness ==
    /\ pc = "served"
    /\ req.op = "packing"
    /\ resp.code = 200
    /\ Len(Split(RequestFields[3], ",")) = 7
    /\ Len(ItemCmds) = 6
    /\ ItemCmds[6].text = <<"6", ". ", "6">>

\* the names of the commands of a stream, in order
RECURSIVE CmdNames(_)
CmdNames(s) ==
    IF s = <<>> THEN <<>>
    ELSE (IF Head(s).t = "cmd" THEN <<Head(s).name>> ELSE <<>>) \o CmdNames(Tail(s))

\* prelude, BITMAP header, the whole payload, PRINT, and nothing else
CompleteImageStream(s) ==
    /\ CmdNames(s) = <<"SIZE", "GAP", "CLS", "BITMAP", "PRINT">>
    /\ \E k \in DOMAIN s :
         /\ IsCmd(s[k], "BITMAP")
         /\ k < Len(s)
         /\ s[k + 1].t = "bin"
         /\ s[k + 1].data = out.data
         /\ Len(s[k + 1].data) = DeclaredBytes(s[k])
         /\ Len(s[k + 1].data) > 0
    /\ Cardinality({ k \in DOMAIN s : s[k].t \in {"bin", "hex"} }) = 1
    /\ EndsWithPrint(s)

\* C20: an image print request either writes one complete command stream
\* (prelude, BITMAP header, full payload, PRINT) to the device or writes
\* nothing; when decoding fails it reports an error and nothing was written.
C20_WholeStreamOrNothing ==
    (pc = "served" /\ req.op \in {"image", "opt_image"}) =>
        IF img = NoImage
        THEN resp.code = 500 /\ device = <<>>
        ELSE /\ resp.code = 200
             /\ Len(device) = 1
             /\ CompleteImageStream(device[1])

\* a body that is no image was refused by the Flask server, nothing written
C20_Witness ==
    /\ pc = "served"
    /\ req.op = "image"
    /\ img = NoImage
    /\ resp.code = 500
    /\ device = <<>>

(***************************************************************************)
(* Properties of the image command stream (SpecPrint).                     *)
(***************************************************************************)
\* the element at position k is the command name with these arguments
CmdAt(s, k, name, args) == k <= Len(s) /\ IsCmd(s[k], name) /\ s[k].args = args

\* size, gap, CLS, BITMAP x,y,widthBytes,height,0, payload, line end, PRINT
\* with one copy, for a geometry of the given size, gap and offsets
OrderedImageStream(s, w, h, gap, x, y) ==
    /\ Len(s) = 11
    /\ CmdAt(s, 1, "SIZE", <<w, h>>)
    /\ CmdAt(s, 3, "GAP", <<gap, 0>>)
    /\ CmdAt(s, 5, "CLS", <<>>)
    /\ CmdAt(s, 7, "BITMAP", <<x, y, out.header.widthBytes, out.header.height, 0>>)
    /\ s[8].t = "bin"
    /\ s[8].data = out.data
    /\ CmdAt(s, 10, "PRINT", <<1, 1>>)
    /\ \A k \in {2, 4, 6, 9, 11} : s[k].t = "nl"

\* the same order for a stream whose sizes are not tied to a geometry
OrderedNames(s) == CmdNames(s) = <<"SIZE", "GAP", "CLS", "BITMAP", "PRINT">>

\* C21: the image command stream is, in order, the label size taken from the
\* geometry, the gap declaration, CLS, one BITMAP line with x and y the
\* geometry's offsets, widthBytes, height and mode 0, the payload, a line
\* terminator and PRINT with copy count 1.
C21_ImageStreamOrder ==
    (pc = "served" /\ stream # <<>>) =>
        /\ req.op = "image" =>
              OrderedImageStream(stream, load_config.label_width_mm,
                                 load_config.label_height_mm, load_config.gap_mm,
                                 load_config.x_offset, load_config.y_offset)
        /\ req.op = "opt_image" =>
              OrderedImageStream(stream, LABEL_WIDTH_MM, LABEL_HEIGHT_MM, 3,
                                 X_OFFSET, Y_OFFSET)
        /\ req.op = "send_image" => OrderedNames(stream)

(***************************************************************************)
(* Padding against white pixels (SpecImage).                               *)
(***************************************************************************)
\* sample (row, col) of the grid that was packed, as it was before any
\* inversion
SourceAt(row, col) == out.pre[row * out.width + col + 1]

\* the padding columns of a packed row
PaddingCols == out.width..(8 * out.header.widthBytes - 1)

\* C22: in threshold mode a padding bit carries the bit value that a white
\* (255) source pixel produces, in every image_to_tspl variant.
C22_PaddingLikeWhite ==
    (pc = "converted" /\ ~out.dither) =>
        \A r \in 0..(out.height - 1), c \in 0..(out.width - 1) :
            SourceAt(r, c) = 255 =>
                \A p \in PaddingCols : PackedBit(r, p) = PackedBit(r, c)

(***************************************************************************)
(* Frame and backup of the configuration (SpecConfig).                     *)
(***************************************************************************)
\* the configuration a file stands for: the defaults while there is none
Stored(file) == IF file.exists THEN file.cfg ELSE DEFAULT_CONFIG

\* the keys that are equal in two configurations
SameKeys(a, b) == { k \in ConfigKeys : a[k] = b[k] }

Saved == req'.op \in {"config", "nudge"} /\ resp'.code = 200

====
